---- MODULE Spec2Model ----
(***************************************************************************)
(* container-diff: the sequence alignment behind GetAdditions,             *)
(* GetDeletions and GetMatches, the content and metadata directory diffs   *)
(* built on it, and the per-layer orchestration of the metadata diff.      *)
(*                                                                         *)
(* Indices of opcodes and matching blocks are 0-based and half-open, as in *)
(* the Go code; TLA+ sequences are 1-based, so a[i] of the code is a[i+1]  *)
(* here and a[i1:i2] is Slice(a, i1, i2).                                  *)
(***************************************************************************)
EXTENDS Integers, Sequences, FiniteSets, TLC

VARIABLES
  \* SpecSeq: two token sequences and what the three functions returned
  seqA, seqB, seqAdds, seqDels, seqMatches,
  \* Spec: the two trees and what the diffs of them returned
  fs,         \* <<tree 1, tree 2>>
  dirRet,     \* DiffDirectory(tree 1, tree 2)
  dirRetRev,  \* DiffDirectory(tree 2, tree 1)
  metaRet,    \* DiffDirectoryMetadata(tree 1, tree 2), as called by
              \* diffImageFileMetadata
  imgRet,     \* diffImageFileMetadata(tree 1, tree 2)
  \* SpecLayers: FileMetaLayerAnalyzer.Diff in progress
  image1, image2,  \* the layers (trees) of the two images
  pc,              \* "loop" while the range loop runs, "done" once returned
  index,           \* the loop's index
  dirDiffs,        \* the diffs appended so far
  diffed,          \* history: the <<i, j>> layer pairs diffed so far
  layerRet,        \* what Diff returned
  \* SpecFile: DiffFile on one file name of two images
  file1, file2,      \* the file at image1.FSPath/filename, image2.FSPath/filename
  source1, source2,  \* image1.Source, image2.Source
  fileRet,           \* what DiffFile returned
  \* SpecStr: the rendering of a list of MetaEntryDiff
  metaEntries,       \* the argument of stringifyMetaEntryDiffs
  strEntries         \* what it returned

seqVars == <<seqA, seqB, seqAdds, seqDels, seqMatches>>
dirVars == <<fs, dirRet, dirRetRev, metaRet, imgRet>>
layerVars == <<image1, image2, pc, index, dirDiffs, diffed, layerRet>>
fileVars == <<file1, file2, source1, source2, fileRet>>
strVars == <<metaEntries, strEntries>>
textVars == <<fileVars, strVars>>
vars == <<seqVars, dirVars, layerVars, textVars>>

(***************************************************************************)
(* Bounds                                                                  *)
(***************************************************************************)
\* longest token sequence handed to the matcher in SpecSeq
MaxLen == 3
\* the tokens (lines, path names) those sequences are made of
Tokens == {"x", "y", "z"}
\* the largest uid and gid an entry has
MaxId == 1
\* the most layers an image has
MaxLayers == 3

(***************************************************************************)
(* Generic helpers                                                         *)
(***************************************************************************)
Min(x, y) == IF x <= y THEN x ELSE y
Max(x, y) == IF x >= y THEN x ELSE y

\* Go's s[lo:hi]
Slice(s, lo, hi) == SubSeq(s, lo + 1, hi)

RECURSIVE Flatten(_)
Flatten(ss) == IF ss = <<>> THEN <<>> ELSE Head(ss) \o Flatten(Tail(ss))

SeqsUpTo(S, n) == UNION {[1..k -> S] : k \in 0..n}

(***************************************************************************)
(* difflib.SequenceMatcher (the vendored go-difflib the diff is built on). *)
(* Sequences here stay far below the length at which the library starts    *)
(* to discard popular elements, and no junk predicate is ever installed.   *)
(***************************************************************************)

\* length of the common run of a and b starting at a[i], b[j], inside
\* a[.. ahi) and b[.. bhi)
RECURSIVE RunLen(_, _, _, _, _, _)
RunLen(a, b, i, j, ahi, bhi) ==
  IF i < ahi /\ j < bhi /\ a[i + 1] = b[j + 1]
    THEN 1 + RunLen(a, b, i + 1, j + 1, ahi, bhi)
    ELSE 0

\* findLongestMatch: the longest common run of a[alo:ahi] and b[blo:bhi];
\* of several longest ones the one starting earliest in a, and of those the
\* one starting earliest in b; (alo, blo, 0) when nothing matches.
FindLongestMatch(a, b, alo, ahi, blo, bhi) ==
  LET starts == (alo .. (ahi - 1)) \X (blo .. (bhi - 1))
      len(p) == RunLen(a, b, p[1], p[2], ahi, bhi)
      hits   == {p \in starts : len(p) > 0}
  IN  IF hits = {}
        THEN [A |-> alo, B |-> blo, Size |-> 0]
        ELSE LET best == CHOOSE p \in hits :
                           \A q \in hits :
                              \/ len(p) > len(q)
                              \/ /\ len(p) = len(q)
                                 /\ \/ p[1] < q[1]
                                    \/ p[1] = q[1] /\ p[2] <= q[2]
             IN  [A |-> best[1], B |-> best[2], Size |-> len(best)]

\* the recursive closure matchBlocks of GetMatchingBlocks: the longest match,
\* then the same to its left and to its right, in position order
RECURSIVE MatchBlocks(_, _, _, _, _, _)
MatchBlocks(a, b, alo, ahi, blo, bhi) ==
  LET m == FindLongestMatch(a, b, alo, ahi, blo, bhi)
      i == m.A
      j == m.B
      k == m.Size
  IN  IF k > 0
        THEN (IF alo < i /\ blo < j
                THEN MatchBlocks(a, b, alo, i, blo, j) ELSE <<>>)
             \o <<m>>
             \o (IF i + k < ahi /\ j + k < bhi
                   THEN MatchBlocks(a, b, i + k, ahi, j + k, bhi) ELSE <<>>)
        ELSE <<>>

\* the loop of GetMatchingBlocks that merges adjacent blocks; cur is the
\* block (i1, j1, k1) being grown, out the blocks already emitted
RECURSIVE CollapseAdjacent(_, _, _)
CollapseAdjacent(matched, cur, out) ==
  IF matched = <<>>
    THEN IF cur.Size > 0 THEN Append(out, cur) ELSE out
    ELSE LET blk == Head(matched)
         IN  IF cur.A + cur.Size = blk.A /\ cur.B + cur.Size = blk.B
               THEN CollapseAdjacent(Tail(matched),
                                     [cur EXCEPT !.Size = cur.Size + blk.Size],
                                     out)
               ELSE CollapseAdjacent(Tail(matched), blk,
                                     IF cur.Size > 0 THEN Append(out, cur) ELSE out)

\* GetMatchingBlocks: the merged blocks followed by the sentinel
\* (len(a), len(b), 0)
GetMatchingBlocks(a, b) ==
  Append(CollapseAdjacent(MatchBlocks(a, b, 0, Len(a), 0, Len(b)),
                          [A |-> 0, B |-> 0, Size |-> 0], <<>>),
         [A |-> Len(a), B |-> Len(b), Size |-> 0])

\* the loop of GetOpCodes over the matching blocks, from position (i, j)
RECURSIVE OpCodesFrom(_, _, _)
OpCodesFrom(blocks, i, j) ==
  IF blocks = <<>>
    THEN <<>>
    ELSE LET m    == Head(blocks)
             ai   == m.A
             bj   == m.B
             size == m.Size
             tag  == IF i < ai /\ j < bj THEN "r"
                     ELSE IF i < ai THEN "d"
                     ELSE IF j < bj THEN "i"
                     ELSE ""
             gap  == IF tag # ""
                       THEN <<[Tag |-> tag, I1 |-> i, I2 |-> ai, J1 |-> j, J2 |-> bj]>>
                       ELSE <<>>
             eq   == IF size > 0
                       THEN <<[Tag |-> "e", I1 |-> ai, I2 |-> ai + size,
                               J1 |-> bj, J2 |-> bj + size]>>
                       ELSE <<>>
         IN  gap \o eq \o OpCodesFrom(Tail(blocks), ai + size, bj + size)

GetOpCodes(a, b) == OpCodesFrom(GetMatchingBlocks(a, b), 0, 0)

\* the grouping loop of GetGroupedOpCodes: group is the open group, groups
\* the closed ones
RECURSIVE GroupLoop(_, _, _, _)
GroupLoop(codes, n, group, groups) ==
  IF codes = <<>>
    THEN IF Len(group) > 0 /\ ~(Len(group) = 1 /\ group[1].Tag = "e")
           THEN Append(groups, group)
           ELSE groups
    ELSE LET c == Head(codes)
         IN  IF c.Tag = "e" /\ c.I2 - c.I1 > n + n
               THEN GroupLoop(Tail(codes), n,
                      <<[c EXCEPT !.I1 = Max(c.I1, c.I2 - n),
                                  !.J1 = Max(c.J1, c.J2 - n)]>>,
                      Append(groups,
                             Append(group, [c EXCEPT !.I2 = Min(c.I2, c.I1 + n),
                                                     !.J2 = Min(c.J2, c.J1 + n)])))
               ELSE GroupLoop(Tail(codes), n, Append(group, c), groups)

\* the first opcode, when equal, keeps its last n elements
TrimLeading(codes, n) ==
  LET c == codes[1]
  IN  IF c.Tag = "e"
        THEN [codes EXCEPT ![1] = [Tag |-> c.Tag,
                                   I1 |-> Max(c.I1, c.I2 - n), I2 |-> c.I2,
                                   J1 |-> Max(c.J1, c.J2 - n), J2 |-> c.J2]]
        ELSE codes

\* the last opcode, when equal, keeps its first n elements
TrimTrailing(codes, n) ==
  LET c == codes[Len(codes)]
  IN  IF c.Tag = "e"
        THEN [codes EXCEPT ![Len(codes)] = [Tag |-> c.Tag,
                                            I1 |-> c.I1, I2 |-> Min(c.I2, c.I1 + n),
                                            J1 |-> c.J1, J2 |-> Min(c.J2, c.J1 + n)]]
        ELSE codes

\* a matcher of two equal (or two empty) sequences has one equal opcode
\* here, even when GetOpCodes has none
CodesOrEqual(codes) ==
  IF codes = <<>>
    THEN <<[Tag |-> "e", I1 |-> 0, I2 |-> 1, J1 |-> 0, J2 |-> 1]>>
    ELSE codes

\* GetGroupedOpCodes(n): the opcodes with the leading and trailing equal
\* spans cut to n elements of context, split into groups at every equal span
\* longer than 2n
GetGroupedOpCodes(a, b, n) ==
  GroupLoop(TrimTrailing(TrimLeading(CodesOrEqual(GetOpCodes(a, b)), n), n),
            n, <<>>, <<>>)

(***************************************************************************)
(* util/output_text_utils.go: GetAdditions, GetDeletions, GetMatches       *)
(***************************************************************************)

\* the b-side spans of the replace and insert opcodes, in order
RECURSIVE AddSpans(_, _)
AddSpans(codes, b) ==
  IF codes = <<>>
    THEN <<>>
    ELSE LET opCode == Head(codes)
         IN  (IF opCode.Tag = "r" \/ opCode.Tag = "i"
                THEN Slice(b, opCode.J1, opCode.J2) ELSE <<>>)
             \o AddSpans(Tail(codes), b)

\* a variant the properties below must tell from the code: only inserts are collected, a replaced span's new side is lost
GetAdditionsInsertOnly(a, b) ==
  LET codes == Flatten(GetGroupedOpCodes(a, b, 0))
      ins   == SelectSeq(codes, LAMBDA c : c.Tag = "i")
  IN  AddSpans(ins, b)

GetAdditions(a, b) == AddSpans(Flatten(GetGroupedOpCodes(a, b, 0)), b)

\* the a-side spans of the replace and delete opcodes, in order
RECURSIVE DelSpans(_, _)
DelSpans(codes, a) ==
  IF codes = <<>>
    THEN <<>>
    ELSE LET opCode == Head(codes)
         IN  (IF opCode.Tag = "r" \/ opCode.Tag = "d"
                THEN Slice(a, opCode.I1, opCode.I2) ELSE <<>>)
             \o DelSpans(Tail(codes), a)

GetDeletions(a, b) == DelSpans(Flatten(GetGroupedOpCodes(a, b, 0)), a)

\* the a-side spans of the matching blocks but the last (the sentinel)
RECURSIVE MatchSpans(_, _)
MatchSpans(blocks, a) ==
  IF Len(blocks) <= 1
    THEN <<>>
    ELSE Slice(a, Head(blocks).A, Head(blocks).A + Head(blocks).Size)
         \o MatchSpans(Tail(blocks), a)

GetMatches(a, b) == MatchSpans(GetMatchingBlocks(a, b), a)

(***************************************************************************)
(* The filesystem the diffs read.  A tree is a root and, per path name     *)
(* under it, an entry: what Lstat, Readlink, ReadFile and ReadDir answer   *)
(* there.                                                                  *)
(*   kind    "absent" (no such path), "staterr" (a directory lists the     *)
(*           name but Lstat fails on it), "file", "symlink", "dir"         *)
(*   perm, uid, gid                the permission bits and the owner       *)
(*   size    Lstat's size: the length of a file's bytes or of a symlink's  *)
(*           target, the inode size of a directory                         *)
(*   data    what ReadFile returns (through the link, for a symlink)       *)
(*   target  what Readlink returns                                         *)
(*   tar     what IsTar answers for the path                               *)
(*   ioerr   the read the comparison needs fails: ReadFile of a file,      *)
(*           Readlink/ReadFile of a symlink, ReadDir of a directory        *)
(***************************************************************************)

\* the path names, in the order filepath.Walk visits them, which for these
\* names is also the order sort.Strings puts them in
NameOrder == <<"/a", "/b", "/b/c">>
Names == {NameOrder[k] : k \in 1..Len(NameOrder)}
Rank(n) == CHOOSE k \in 1..Len(NameOrder) : NameOrder[k] = n

\* the directory a name lies in ("" for the root) and its base name
Parent(n) == IF n = "/b/c" THEN "/b" ELSE ""
Children(n) == {c \in Names : Parent(c) = n}

Entry(kind, perm, uid, gid, size, data, target, tar, ioerr) ==
  [kind |-> kind, perm |-> perm, uid |-> uid, gid |-> gid, size |-> size,
   data |-> data, target |-> target, tar |-> tar, ioerr |-> ioerr]

Absent  == Entry("absent", 0, 0, 0, 0, "", "", FALSE, FALSE)
StatErr == Entry("staterr", 0, 0, 0, 0, "", "", FALSE, FALSE)
File(data, tar, ioerr, perm, uid, gid) ==
  Entry("file", perm, uid, gid, Len(data), data, "", tar, ioerr)
Link(target, data, tar, ioerr, perm, uid, gid) ==
  Entry("symlink", perm, uid, gid, Len(target), data, target, tar, ioerr)
Dir(size, tar, ioerr, perm, uid, gid) ==
  Entry("dir", perm, uid, gid, size, "", "", tar, ioerr)

\* a fs.FileMode is its type bits (a set of flags) and its permission bits;
\* os.ModeDir and os.ModeSymlink are two of the flags
ModeDir == "d"
ModeSymlink == "L"
HasBit(m, bit) == bit \in m.type

\* os.Lstat(root + name): the error, or the FileInfo (with its Stat_t)
Lstat(root, name) ==
  LET e == root.ent[name]
      none == [type |-> {}, perm |-> 0]
  IN  IF e.kind \in {"absent", "staterr"}
        THEN [err |-> TRUE, mode |-> none, size |-> 0, uid |-> 0, gid |-> 0]
        ELSE [err  |-> FALSE,
              mode |-> [type |-> IF e.kind = "dir" THEN {ModeDir}
                                 ELSE IF e.kind = "symlink" THEN {ModeSymlink}
                                 ELSE {},
                        perm |-> e.perm],
              size |-> e.size, uid |-> e.uid, gid |-> e.gid]

IsDir(info) == HasBit(info.mode, ModeDir)

\* os.Readlink and ioutil.ReadFile of root + name
Readlink(root, name) ==
  LET e == root.ent[name]
  IN  IF e.kind # "symlink" \/ e.ioerr
        THEN [err |-> TRUE, val |-> ""]
        ELSE [err |-> FALSE, val |-> e.target]

ReadFile(root, name) ==
  LET e == root.ent[name]
  IN  IF e.kind \notin {"file", "symlink"} \/ e.ioerr
        THEN [err |-> TRUE, val |-> ""]
        ELSE [err |-> FALSE, val |-> e.data]

\* pkgutil.IsTar(root + name)
IsTar(root, name) == root.ent[name].tar

\* the names filepath.Walk reaches under the root: those that exist and
\* whose directory was reached and could be read
RECURSIVE Walked(_, _)
Walked(root, n) ==
  /\ root.ent[n].kind # "absent"
  /\ Parent(n) # "" =>
       /\ Walked(root, Parent(n))
       /\ root.ent[Parent(n)].kind = "dir"
       /\ ~root.ent[Parent(n)].ioerr

(***************************************************************************)
(* pkg/util/fs_utils.go                                                    *)
(***************************************************************************)

\* GetDirectory: deep, the walk function appends every path it is called
\* with but the root and returns nil whatever error it is handed, so Walk
\* returns nil; shallow, ReadDir's error is returned
GetDirectory(root, deep) ==
  IF deep
    THEN [dir |-> [Root |-> root,
                   Content |-> IF root.rootErr THEN <<>>
                               ELSE SelectSeq(NameOrder, LAMBDA n : Walked(root, n))],
          err |-> FALSE]
    ELSE IF root.rootErr
           THEN [dir |-> [Root |-> root, Content |-> <<>>], err |-> TRUE]
           ELSE [dir |-> [Root |-> root,
                          Content |-> SelectSeq(NameOrder, LAMBDA n :
                                        Walked(root, n) /\ Parent(n) = "")],
                 err |-> FALSE]

\* getDirectorySize's walk below a directory: [panic, size].  The walk
\* function calls info.IsDir() before it looks at the error, and Walk hands
\* it a nil info for a child whose Lstat failed.
RECURSIVE WalkSize(_, _)
WalkSize(root, n) ==
  LET e == root.ent[n]
  IN  IF e.kind = "staterr" THEN [panic |-> TRUE, size |-> 0]
      ELSE IF e.kind # "dir" THEN [panic |-> FALSE, size |-> e.size]
      ELSE IF e.ioerr THEN [panic |-> FALSE, size |-> 0]
      ELSE LET kids == SelectSeq(NameOrder, LAMBDA c :
                         c \in Children(n) /\ root.ent[c].kind # "absent")
               RECURSIVE Sum(_)
               Sum(cs) == IF cs = <<>> THEN [panic |-> FALSE, size |-> 0]
                          ELSE LET h == WalkSize(root, Head(cs))
                                   t == Sum(Tail(cs))
                               IN  [panic |-> h.panic \/ t.panic,
                                    size  |-> h.size + t.size]
           IN  Sum(kids)

\* GetSize: -1 when Lstat fails, the sum of the files below a directory,
\* Lstat's size otherwise
GetSize(root, name) ==
  LET stat == Lstat(root, name)
  IN  IF stat.err THEN [panic |-> FALSE, size |-> -1]
      ELSE IF IsDir(stat) THEN WalkSize(root, name)
      ELSE [panic |-> FALSE, size |-> stat.size]

\* CreateDirectoryEntries: one DirectoryEntry per name, in order
RECURSIVE CreateDirectoryEntries(_, _)
CreateDirectoryEntries(root, entryNames) ==
  IF entryNames = <<>>
    THEN [panic |-> FALSE, entries |-> <<>>]
    ELSE LET sz   == GetSize(root, Head(entryNames))
             rest == CreateDirectoryEntries(root, Tail(entryNames))
         IN  IF sz.panic \/ rest.panic
               THEN [panic |-> TRUE, entries |-> <<>>]
               ELSE [panic |-> FALSE,
                     entries |-> <<[Name |-> Head(entryNames), Size |-> sz.size]>>
                                 \o rest.entries]

\* a variant the properties below must tell from the code: a name whose Lstat fails is left out and the rest returned
RECURSIVE CreateDirectoryMetaEntriesLenient(_, _)
CreateDirectoryMetaEntriesLenient(root, entryNames) ==
  IF entryNames = <<>>
    THEN [err |-> FALSE, entries |-> <<>>]
    ELSE LET fstat == Lstat(root, Head(entryNames))
             rest  == CreateDirectoryMetaEntriesLenient(root, Tail(entryNames))
         IN  IF fstat.err
               THEN rest
               ELSE [err |-> FALSE,
                     entries |-> <<[Name |-> Head(entryNames), Mode |-> fstat.mode,
                                    UID |-> fstat.uid, GID |-> fstat.gid]>>
                                 \o rest.entries]

\* CreateDirectoryMetaEntries: one DirectoryMetaEntry per name, in order;
\* (nil, err) at the first name whose Lstat fails
RECURSIVE CreateDirectoryMetaEntries(_, _)
CreateDirectoryMetaEntries(root, entryNames) ==
  IF entryNames = <<>>
    THEN [err |-> FALSE, entries |-> <<>>]
    ELSE LET fstat == Lstat(root, Head(entryNames))
             rest  == CreateDirectoryMetaEntries(root, Tail(entryNames))
         IN  IF fstat.err \/ rest.err
               THEN [err |-> TRUE, entries |-> <<>>]
               ELSE [err |-> FALSE,
                     entries |-> <<[Name |-> Head(entryNames), Mode |-> fstat.mode,
                                    UID |-> fstat.uid, GID |-> fstat.gid]>>
                                 \o rest.entries]

\* CheckSameSymlink: [same, err]
CheckSameSymlink(root1, root2, f) ==
  LET link1 == Readlink(root1, f)
      link2 == Readlink(root2, f)
  IN  IF link1.err \/ link2.err
        THEN [same |-> FALSE, err |-> TRUE]
        ELSE [same |-> link1.val = link2.val, err |-> FALSE]

\* CheckSameFile: [same, err]
CheckSameFile(root1, root2, f) ==
  LET f1stat == Lstat(root1, f)
      f2stat == Lstat(root2, f)
      f1     == ReadFile(root1, f)
      f2     == ReadFile(root2, f)
  IN  IF f1stat.err \/ f2stat.err THEN [same |-> FALSE, err |-> TRUE]
      ELSE IF f1stat.size # f2stat.size THEN [same |-> FALSE, err |-> FALSE]
      ELSE IF f1.err \/ f2.err THEN [same |-> FALSE, err |-> TRUE]
      ELSE [same |-> f1.val = f2.val, err |-> FALSE]

(***************************************************************************)
(* util/output_text_utils.go: the directory diffs                          *)
(***************************************************************************)

\* sort.Strings: ascending; insertion of each name at its place
RECURSIVE InsertSorted(_, _)
InsertSorted(n, sorted) ==
  IF sorted = <<>> THEN <<n>>
  ELSE IF Rank(n) <= Rank(Head(sorted)) THEN <<n>> \o sorted
  ELSE <<Head(sorted)>> \o InsertSorted(n, Tail(sorted))

RECURSIVE SortStrings(_)
SortStrings(names) ==
  IF names = <<>> THEN <<>> ELSE InsertSorted(Head(names), SortStrings(Tail(names)))

GetAddedEntries(d1, d2) == GetAdditions(d1.Content, d2.Content)

\* a variant the properties below must tell from the code: only the delete opcodes are collected
GetDeletedEntriesDeleteOnly(d1, d2) ==
  DelSpans(SelectSeq(Flatten(GetGroupedOpCodes(d1.Content, d2.Content, 0)),
                     LAMBDA c : c.Tag = "d"),
           d1.Content)

GetDeletedEntries(d1, d2) == GetDeletions(d1.Content, d2.Content)

\* a variant the properties below must tell from the code: a candidate whose Lstat fails is reported as modified
ContentVerdictStatErrIsMod(root1, root2, f) ==
  LET f1stat == Lstat(root1, f)
      f2stat == Lstat(root2, f)
  IN  IF f1stat.err \/ f2stat.err THEN "mod"
      ELSE IF HasBit(f1stat.mode, ModeSymlink) /\ HasBit(f2stat.mode, ModeSymlink)
        THEN LET r == CheckSameSymlink(root1, root2, f)
             IN  IF r.err THEN "skip" ELSE IF ~r.same THEN "mod" ELSE "same"
      ELSE IF IsTar(root1, f)
        THEN IF f1stat.size # f2stat.size THEN "mod" ELSE "same"
      ELSE IF ~IsDir(f1stat)
        THEN LET r == CheckSameFile(root1, root2, f)
             IN  IF r.err THEN "skip" ELSE IF ~r.same THEN "mod" ELSE "same"
      ELSE "same"

\* a variant the properties below must tell from the code: files of equal size are taken to be the same
ContentVerdictSizeOnly(root1, root2, f) ==
  LET f1stat == Lstat(root1, f)
      f2stat == Lstat(root2, f)
  IN  IF f1stat.err \/ f2stat.err THEN "skip"
      ELSE IF HasBit(f1stat.mode, ModeSymlink) /\ HasBit(f2stat.mode, ModeSymlink)
        THEN LET r == CheckSameSymlink(root1, root2, f)
             IN  IF r.err THEN "skip" ELSE IF ~r.same THEN "mod" ELSE "same"
      ELSE IF IsTar(root1, f)
        THEN IF f1stat.size # f2stat.size THEN "mod" ELSE "same"
      ELSE IF ~IsDir(f1stat)
        THEN IF f1stat.size # f2stat.size THEN "mod" ELSE "same"
      ELSE "same"

\* a variant the properties below must tell from the code: symlinks with the same target are the ones reported
ContentVerdictLinkInverted(root1, root2, f) ==
  LET f1stat == Lstat(root1, f)
      f2stat == Lstat(root2, f)
  IN  IF f1stat.err \/ f2stat.err THEN "skip"
      ELSE IF HasBit(f1stat.mode, ModeSymlink) /\ HasBit(f2stat.mode, ModeSymlink)
        THEN LET r == CheckSameSymlink(root1, root2, f)
             IN  IF r.err THEN "skip" ELSE IF r.same THEN "mod" ELSE "same"
      ELSE IF IsTar(root1, f)
        THEN IF f1stat.size # f2stat.size THEN "mod" ELSE "same"
      ELSE IF ~IsDir(f1stat)
        THEN LET r == CheckSameFile(root1, root2, f)
             IN  IF r.err THEN "skip" ELSE IF ~r.same THEN "mod" ELSE "same"
      ELSE "same"

\* the body of GetModifiedEntries' loop for one matched name f: "skip" (an
\* error is logged and the loop continues), "mod" (f is appended) or "same"
ContentVerdict(root1, root2, f) ==
  LET f1stat == Lstat(root1, f)
      f2stat == Lstat(root2, f)
  IN  IF f1stat.err \/ f2stat.err THEN "skip"
      ELSE IF HasBit(f1stat.mode, ModeSymlink) /\ HasBit(f2stat.mode, ModeSymlink)
        THEN LET r == CheckSameSymlink(root1, root2, f)
             IN  IF r.err THEN "skip" ELSE IF ~r.same THEN "mod" ELSE "same"
      ELSE IF IsTar(root1, f)
        THEN IF f1stat.size # f2stat.size THEN "mod" ELSE "same"
      ELSE IF ~IsDir(f1stat)
        THEN LET r == CheckSameFile(root1, root2, f)
             IN  IF r.err THEN "skip" ELSE IF ~r.same THEN "mod" ELSE "same"
      ELSE "same"

GetModifiedEntries(d1, d2) ==
  SelectSeq(GetMatches(d1.Content, d2.Content),
            LAMBDA f : ContentVerdict(d1.Root, d2.Root, f) = "mod")

\* a variant the properties below must tell from the code: the group is not compared
MetaVerdictNoGid(root1, root2, f) ==
  LET f1stat == Lstat(root1, f)
      f2stat == Lstat(root2, f)
  IN  IF f1stat.err \/ f2stat.err THEN "skip"
      ELSE IF f1stat.mode # f2stat.mode THEN "mod"
      ELSE IF f1stat.uid # f2stat.uid THEN "mod"
      ELSE "same"

\* the body of GetModifiedMetaEntries' loop for one matched name f
MetaVerdict(root1, root2, f) ==
  LET f1stat == Lstat(root1, f)
      f2stat == Lstat(root2, f)
  IN  IF f1stat.err \/ f2stat.err THEN "skip"
      ELSE IF f1stat.mode # f2stat.mode THEN "mod"
      ELSE IF f1stat.uid # f2stat.uid \/ f1stat.gid # f2stat.gid THEN "mod"
      ELSE "same"

GetModifiedMetaEntries(d1, d2) ==
  SelectSeq(GetMatches(d1.Content, d2.Content),
            LAMBDA f : MetaVerdict(d1.Root, d2.Root, f) = "mod")

\* createEntryDiffs: one EntryDiff per name, with both sizes
RECURSIVE createEntryDiffs(_, _, _)
createEntryDiffs(root1, root2, entryNames) ==
  IF entryNames = <<>>
    THEN [panic |-> FALSE, entries |-> <<>>]
    ELSE LET size1 == GetSize(root1, Head(entryNames))
             size2 == GetSize(root2, Head(entryNames))
             rest  == createEntryDiffs(root1, root2, Tail(entryNames))
         IN  IF size1.panic \/ size2.panic \/ rest.panic
               THEN [panic |-> TRUE, entries |-> <<>>]
               ELSE [panic |-> FALSE,
                     entries |-> <<[Name |-> Head(entryNames), Size1 |-> size1.size,
                                    Size2 |-> size2.size]>> \o rest.entries]

\* createMetaEntryDiffs: one MetaEntryDiff per name; (nil, err) at the first
\* name whose Lstat fails on either side
RECURSIVE createMetaEntryDiffs(_, _, _)
createMetaEntryDiffs(root1, root2, entryNames) ==
  IF entryNames = <<>>
    THEN [err |-> FALSE, entries |-> <<>>]
    ELSE LET f1stat == Lstat(root1, Head(entryNames))
             f2stat == Lstat(root2, Head(entryNames))
             rest   == createMetaEntryDiffs(root1, root2, Tail(entryNames))
         IN  IF f1stat.err \/ f2stat.err \/ rest.err
               THEN [err |-> TRUE, entries |-> <<>>]
               ELSE [err |-> FALSE,
                     entries |-> <<[Name  |-> Head(entryNames),
                                    Mode1 |-> f1stat.mode, Mode2 |-> f2stat.mode,
                                    UID1  |-> f1stat.uid,  UID2  |-> f2stat.uid,
                                    GID1  |-> f1stat.gid,  GID2  |-> f2stat.gid]>>
                                 \o rest.entries]

\* a variant the properties below must tell from the code: the modified names are left out of the flag
SameFlagIgnoresMods(adds, dels, mods) == Len(adds) = 0 /\ Len(dels) = 0

\* the same flag both diffs compute from the three name lists
SameFlag(adds, dels, mods) == Len(adds) = 0 /\ Len(dels) = 0 /\ Len(mods) = 0

EmptyDiff == [Adds |-> <<>>, Dels |-> <<>>, Mods |-> <<>>]

\* DiffDirectory: [panic, diff, same]; panic when a size lookup dereferences
\* the nil FileInfo and the call never returns
DiffDirectory(d1, d2) ==
  LET adds            == SortStrings(GetAddedEntries(d1, d2))
      addedEntries    == CreateDirectoryEntries(d2.Root, adds)
      dels            == SortStrings(GetDeletedEntries(d1, d2))
      deletedEntries  == CreateDirectoryEntries(d1.Root, dels)
      mods            == SortStrings(GetModifiedEntries(d1, d2))
      modifiedEntries == createEntryDiffs(d1.Root, d2.Root, mods)
  IN  IF addedEntries.panic \/ deletedEntries.panic \/ modifiedEntries.panic
        THEN [panic |-> TRUE, diff |-> EmptyDiff, same |-> FALSE]
        ELSE [panic |-> FALSE,
              diff  |-> [Adds |-> addedEntries.entries,
                         Dels |-> deletedEntries.entries,
                         Mods |-> modifiedEntries.entries],
              same  |-> SameFlag(adds, dels, mods)]

\* DiffDirectoryMetadata: [diff, same, err]
DiffDirectoryMetadata(d1, d2) ==
  LET adds            == SortStrings(GetAddedEntries(d1, d2))
      addedEntries    == CreateDirectoryMetaEntries(d2.Root, adds)
      dels            == SortStrings(GetDeletedEntries(d1, d2))
      deletedEntries  == CreateDirectoryMetaEntries(d1.Root, dels)
      mods            == SortStrings(GetModifiedMetaEntries(d1, d2))
      modifiedEntries == createMetaEntryDiffs(d1.Root, d2.Root, mods)
  IN  IF addedEntries.err \/ deletedEntries.err \/ modifiedEntries.err
        THEN [diff |-> EmptyDiff, same |-> FALSE, err |-> TRUE]
        ELSE [diff |-> [Adds |-> addedEntries.entries,
                        Dels |-> deletedEntries.entries,
                        Mods |-> modifiedEntries.entries],
              same |-> SameFlag(adds, dels, mods),
              err  |-> FALSE]

(***************************************************************************)
(* differs/filemeta_diff.go                                                *)
(***************************************************************************)

\* diffImageFileMetadata: [diff, err]
diffImageFileMetadata(img1, img2) ==
  LET img1Dir == GetDirectory(img1, TRUE)
      img2Dir == GetDirectory(img2, TRUE)
      r       == DiffDirectoryMetadata(img1Dir.dir, img2Dir.dir)
  IN  IF img1Dir.err \/ img2Dir.err \/ r.err
        THEN [diff |-> EmptyDiff, err |-> TRUE]
        ELSE [diff |-> r.diff, err |-> FALSE]

(***************************************************************************)
(* SpecSeq: the three functions applied to arbitrary token sequences       *)
(***************************************************************************)
Unset == [set |-> FALSE, val |-> <<>>]
Ret(v) == [set |-> TRUE, val |-> v]

SeqIdle ==
  /\ seqA = <<>> /\ seqB = <<>>
  /\ seqAdds = Unset /\ seqDels = Unset /\ seqMatches = Unset

EmptyTree == [rootErr |-> FALSE, ent |-> [n \in Names |-> Absent]]

DirIdle ==
  /\ fs = <<EmptyTree, EmptyTree>>
  /\ dirRet = Unset /\ dirRetRev = Unset /\ metaRet = Unset /\ imgRet = Unset

LayerIdle ==
  /\ image1 = <<>> /\ image2 = <<>>
  /\ pc = "off" /\ index = 0 /\ dirDiffs = <<>> /\ diffed = <<>>
  /\ layerRet = Unset

NoFile == [kind |-> "missing", body |-> <<>>]

TextIdle ==
  /\ file1 = NoFile /\ file2 = NoFile /\ source1 = "" /\ source2 = ""
  /\ fileRet = Unset
  /\ metaEntries = <<>> /\ strEntries = Unset

InitSeq ==
  /\ seqA \in SeqsUpTo(Tokens, MaxLen)
  /\ seqB \in SeqsUpTo(Tokens, MaxLen)
  /\ seqAdds = Unset
  /\ seqDels = Unset
  /\ seqMatches = Unset
  /\ DirIdle
  /\ LayerIdle
  /\ TextIdle

CallGetAdditions ==
  /\ ~seqAdds.set
  /\ seqAdds' = Ret(GetAdditions(seqA, seqB))
  /\ UNCHANGED <<seqA, seqB, seqDels, seqMatches, dirVars, layerVars, textVars>>

CallGetDeletions ==
  /\ ~seqDels.set
  /\ seqDels' = Ret(GetDeletions(seqA, seqB))
  /\ UNCHANGED <<seqA, seqB, seqAdds, seqMatches, dirVars, layerVars, textVars>>

CallGetMatches ==
  /\ ~seqMatches.set
  /\ seqMatches' = Ret(GetMatches(seqA, seqB))
  /\ UNCHANGED <<seqA, seqB, seqAdds, seqDels, dirVars, layerVars, textVars>>

NextSeq == CallGetAdditions \/ CallGetDeletions \/ CallGetMatches

SpecSeq == InitSeq /\ [][NextSeq]_vars

(***************************************************************************)
(* Spec: two trees on disk, and the content and metadata diffs of them     *)
(***************************************************************************)
Ids     == 0..MaxId
Perms   == {420, 493}             \* 0644, 0755
Datas   == {"X", "Y", "ZZ", "ZY"}
Targets == {"/a", "/b"}
DirSizes == {2, 3}

\* every content case of one entry, owner and permissions fixed
ContentProfiles ==
       {File(d, t, x, 420, 0, 0) : d \in Datas, t \in BOOLEAN, x \in BOOLEAN}
  \cup {Link(g, d, t, x, 420, 0, 0) :
          g \in Targets, d \in {"ZZ", "ZY"}, t \in BOOLEAN, x \in BOOLEAN}
  \cup {Dir(z, t, x, 420, 0, 0) : z \in DirSizes, t \in BOOLEAN, x \in BOOLEAN}

\* every owner and permission case of each kind of entry, content fixed
MetaProfiles ==
       {File("X", FALSE, FALSE, p, u, g) : p \in Perms, u \in Ids, g \in Ids}
  \cup {Link("/a", "ZZ", FALSE, FALSE, p, u, g) : p \in Perms, u \in Ids, g \in Ids}
  \cup {Dir(2, FALSE, FALSE, p, u, g) : p \in Perms, u \in Ids, g \in Ids}

\* trees of one entry, "/a", in every case above
EntryTrees ==
  {[rootErr |-> FALSE, ent |-> [n \in Names |-> IF n = "/a" THEN e ELSE Absent]] :
     e \in ContentProfiles \cup MetaProfiles \cup {Absent, StatErr}}

\* trees of up to three entries: "/a" in a few cases, "/b" a file, a
\* directory with or without "/b/c" below it, unreadable, or failing
ShapeA == {Absent, StatErr,
           File("X", FALSE, FALSE, 420, 0, 0), File("Y", FALSE, FALSE, 420, 0, 0),
           File("X", FALSE, TRUE, 420, 0, 0), File("X", FALSE, FALSE, 420, 1, 0),
           Link("/a", "ZZ", FALSE, FALSE, 420, 0, 0),
           Link("/b", "ZZ", FALSE, FALSE, 420, 0, 0)}
ShapeB == {Absent, StatErr,
           File("X", FALSE, FALSE, 420, 0, 0), File("Y", FALSE, FALSE, 420, 0, 0),
           Dir(2, FALSE, FALSE, 493, 0, 0), Dir(2, FALSE, TRUE, 493, 0, 0)}
ShapeC == {Absent, StatErr,
           File("X", FALSE, FALSE, 420, 0, 0), File("ZZ", FALSE, FALSE, 420, 0, 0)}

ShapeTrees ==
  {t \in {[rootErr |-> FALSE,
           ent |-> ("/a" :> ea) @@ ("/b" :> eb) @@ ("/b/c" :> ec)] :
             ea \in ShapeA, eb \in ShapeB, ec \in ShapeC} :
     t.ent["/b/c"] # Absent => (t.ent["/b"].kind = "dir" /\ ~t.ent["/b"].ioerr)}

\* a root that cannot be walked: Lstat or ReadDir of it fails
NoRootTree == [rootErr |-> TRUE, ent |-> [n \in Names |-> Absent]]

Init ==
  /\ fs \in (EntryTrees \X EntryTrees)
            \cup ((ShapeTrees \cup {NoRootTree}) \X (ShapeTrees \cup {NoRootTree}))
  /\ dirRet = Unset
  /\ dirRetRev = Unset
  /\ metaRet = Unset
  /\ imgRet = Unset
  /\ SeqIdle
  /\ LayerIdle
  /\ TextIdle

\* DiffDirectory on the deep snapshots of the two trees
CallDiffDirectory ==
  /\ ~dirRet.set
  /\ dirRet' = Ret(DiffDirectory(GetDirectory(fs[1], TRUE).dir,
                                 GetDirectory(fs[2], TRUE).dir))
  /\ UNCHANGED <<fs, dirRetRev, metaRet, imgRet, seqVars, layerVars, textVars>>

\* the same with the two trees swapped
CallDiffDirectorySwapped ==
  /\ ~dirRetRev.set
  /\ dirRetRev' = Ret(DiffDirectory(GetDirectory(fs[2], TRUE).dir,
                                    GetDirectory(fs[1], TRUE).dir))
  /\ UNCHANGED <<fs, dirRet, metaRet, imgRet, seqVars, layerVars, textVars>>

\* diffImageFileMetadata on the two roots, and what its call of
\* DiffDirectoryMetadata returned to it
CallDiffImageFileMetadata ==
  /\ ~imgRet.set
  /\ imgRet' = Ret(diffImageFileMetadata(fs[1], fs[2]))
  /\ metaRet' = IF GetDirectory(fs[1], TRUE).err \/ GetDirectory(fs[2], TRUE).err
                  THEN metaRet
                  ELSE Ret(DiffDirectoryMetadata(GetDirectory(fs[1], TRUE).dir,
                                                 GetDirectory(fs[2], TRUE).dir))
  /\ UNCHANGED <<fs, dirRet, dirRetRev, seqVars, layerVars, textVars>>

Next == CallDiffDirectory \/ CallDiffDirectorySwapped \/ CallDiffImageFileMetadata

Spec == Init /\ [][Next]_vars

(***************************************************************************)
(* SpecLayers: FileMetaLayerAnalyzer.Diff, one step per loop iteration     *)
(***************************************************************************)
OneEntryTree(e) ==
  [rootErr |-> FALSE, ent |-> [n \in Names |-> IF n = "/a" THEN e ELSE Absent]]

\* the layers an image is made of: empty, one file, one name whose Lstat fails
LayerTrees ==
  {EmptyTree, OneEntryTree(File("X", FALSE, FALSE, 420, 0, 0)), OneEntryTree(StatErr)}

InitLayers ==
  /\ image1 \in SeqsUpTo(LayerTrees, MaxLayers)
  /\ image2 \in SeqsUpTo(LayerTrees, MaxLayers)
  /\ pc = "loop"
  /\ index = 0
  /\ dirDiffs = <<>>
  /\ diffed = <<>>
  /\ layerRet = Unset
  /\ SeqIdle
  /\ DirIdle
  /\ TextIdle

\* index >= len(image2.Layers): continue
LayerSkip ==
  /\ pc = "loop"
  /\ index < Len(image1)
  /\ index >= Len(image2)
  /\ index' = index + 1
  /\ UNCHANGED <<image1, image2, pc, dirDiffs, diffed, layerRet, seqVars, dirVars, textVars>>

\* a variant the properties below must tell from the code: every layer of image1 is diffed against the first of image2
LayerDiffOkFirstLayer2 ==
  /\ pc = "loop"
  /\ index < Len(image1)
  /\ index < Len(image2)
  /\ ~diffImageFileMetadata(image1[index + 1], image2[1]).err
  /\ dirDiffs' = Append(dirDiffs,
                        diffImageFileMetadata(image1[index + 1], image2[1]).diff)
  /\ diffed' = Append(diffed, <<index, 0>>)
  /\ index' = index + 1
  /\ UNCHANGED <<image1, image2, pc, layerRet, seqVars, dirVars, textVars>>

\* the pair at index is diffed and the diff appended
LayerDiffOk ==
  /\ pc = "loop"
  /\ index < Len(image1)
  /\ index < Len(image2)
  /\ ~diffImageFileMetadata(image1[index + 1], image2[index + 1]).err
  /\ dirDiffs' = Append(dirDiffs,
                        diffImageFileMetadata(image1[index + 1], image2[index + 1]).diff)
  /\ diffed' = Append(diffed, <<index, index>>)
  /\ index' = index + 1
  /\ UNCHANGED <<image1, image2, pc, layerRet, seqVars, dirVars, textVars>>

\* a variant the properties below must tell from the code: the diffs
\* appended before the failure are returned with the error
LayerDiffFailPartial ==
  /\ pc = "loop"
  /\ index < Len(image1)
  /\ index < Len(image2)
  /\ diffImageFileMetadata(image1[index + 1], image2[index + 1]).err
  /\ diffed' = Append(diffed, <<index, index>>)
  /\ layerRet' = Ret([err |-> TRUE, DirDiffs |-> dirDiffs, info |-> ""])
  /\ pc' = "done"
  /\ UNCHANGED <<image1, image2, index, dirDiffs, seqVars, dirVars, textVars>>

\* the diff of the pair at index fails: Diff returns an empty
\* MultipleDirDiffResult and the error
LayerDiffFail ==
  /\ pc = "loop"
  /\ index < Len(image1)
  /\ index < Len(image2)
  /\ diffImageFileMetadata(image1[index + 1], image2[index + 1]).err
  /\ diffed' = Append(diffed, <<index, index>>)
  /\ layerRet' = Ret([err |-> TRUE, DirDiffs |-> <<>>, info |-> ""])
  /\ pc' = "done"
  /\ UNCHANGED <<image1, image2, index, dirDiffs, seqVars, dirVars, textVars>>

\* the loop is over: the note about additional layers is logged and the
\* diffs are returned
LayerReturn ==
  /\ pc = "loop"
  /\ index = Len(image1)
  /\ layerRet' = Ret([err |-> FALSE, DirDiffs |-> dirDiffs,
                      info |-> IF Len(image1) > Len(image2) THEN "image1"
                               ELSE IF Len(image1) < Len(image2) THEN "image2"
                               ELSE ""])
  /\ pc' = "done"
  /\ UNCHANGED <<image1, image2, index, dirDiffs, diffed, seqVars, dirVars, textVars>>

NextLayers == LayerSkip \/ LayerDiffOk \/ LayerDiffFail \/ LayerReturn

SpecLayers == InitLayers /\ [][NextLayers]_vars

(***************************************************************************)
(* SpecFile: DiffFile on the file of one name in two images.  A file body  *)
(* is a sequence of characters; a text that is written piece by piece is   *)
(* the sequence of its pieces.                                             *)
(***************************************************************************)
MaxBody == 3
NL == "\n"
Chars == {"a", "b", NL}
Sources == {"", "one", "two"}

\* the file at a path: missing, there but unreadable, or there with a body
Files ==
  {NoFile, [kind |-> "unreadable", body |-> <<>>]}
  \cup {[kind |-> "file", body |-> b] : b \in SeqsUpTo(Chars, MaxBody)}

\* GetFileContents: [err, nil, val]; a nil pointer for an empty file
GetFileContents(f) ==
  IF f.kind = "missing" THEN [err |-> TRUE, nil |-> TRUE, val |-> <<>>]
  ELSE IF f.kind = "unreadable" THEN [err |-> TRUE, nil |-> TRUE, val |-> <<>>]
  ELSE IF f.body = <<>> THEN [err |-> FALSE, nil |-> TRUE, val |-> <<>>]
  ELSE [err |-> FALSE, nil |-> FALSE, val |-> f.body]

\* strings.SplitAfter(s, "\n"): cur is the piece being read
RECURSIVE SplitAfter(_, _)
SplitAfter(s, cur) ==
  IF s = <<>> THEN <<cur>>
  ELSE IF Head(s) = NL
    THEN <<Append(cur, NL)>> \o SplitAfter(Tail(s), <<>>)
    ELSE SplitAfter(Tail(s), Append(cur, Head(s)))

\* difflib.SplitLines: the pieces, the last one with a newline appended
SplitLines(s) ==
  LET lines == SplitAfter(s, <<>>)
  IN  [lines EXCEPT ![Len(lines)] = Append(@, NL)]

\* formatRangeUnified: <<beginning>> for one line, else <<beginning, length>>
formatRangeUnified(start, stop) ==
  LET length == stop - start
  IN  IF length = 1 THEN <<start + 1>>
      ELSE IF length = 0 THEN <<start, length>>
      ELSE <<start + 1, length>>

\* the lines of s, each written after prefix
Prefixed(prefix, s) == [k \in 1..Len(s) |-> <<prefix, s[k]>>]

\* the lines WriteUnifiedDiff writes for the opcodes of one group
RECURSIVE GroupLines(_, _, _)
GroupLines(g, a, b) ==
  IF g = <<>> THEN <<>>
  ELSE LET c == Head(g)
       IN  (IF c.Tag = "e" THEN Prefixed(" ", Slice(a, c.I1, c.I2))
            ELSE (IF c.Tag = "r" \/ c.Tag = "d"
                    THEN Prefixed("-", Slice(a, c.I1, c.I2)) ELSE <<>>)
                 \o (IF c.Tag = "r" \/ c.Tag = "i"
                       THEN Prefixed("+", Slice(b, c.J1, c.J2)) ELSE <<>>))
           \o GroupLines(Tail(g), a, b)

\* the hunks of WriteUnifiedDiff, one per group: the @@ line and the lines
RECURSIVE Hunks(_, _, _)
Hunks(groups, a, b) ==
  IF groups = <<>> THEN <<>>
  ELSE LET g     == Head(groups)
           first == g[1]
           last  == g[Len(g)]
       IN  <<<<"@@ -", formatRangeUnified(first.I1, last.I2),
               " +", formatRangeUnified(first.J1, last.J2), " @@", NL>>>>
           \o GroupLines(g, a, b)
           \o Hunks(Tail(groups), a, b)

\* difflib.GetUnifiedDiffString with Context 0 and no dates: the two header
\* lines, written before the first hunk unless both names are empty, and
\* the hunks
GetUnifiedDiffString(a, b, fromFile, toFile) ==
  LET groups == GetGroupedOpCodes(a, b, 0)
  IN  (IF groups # <<>> /\ (fromFile # "" \/ toFile # "")
         THEN << <<"--- ", fromFile, "", NL>>, <<"+++ ", toFile, "", NL>> >>
         ELSE <<>>)
      \o Hunks(groups, a, b)

\* fmt.Sprintf("%s contains an empty file, the contents of %s are:", x, y)
EmptyFileDescription(x, y) ==
  <<x, " contains an empty file, the contents of ", y, " are:">>

\* a variant the properties below must tell from the code: the empty side
\* is reported as the body when image1's file is empty
DiffFileEmptySideBody(f1, f2, src1, src2) ==
  LET image1FileContents == GetFileContents(f1)
      image2FileContents == GetFileContents(f2)
  IN  IF image1FileContents.err \/ image2FileContents.err
        THEN [err |-> TRUE, nil |-> TRUE, Description |-> <<>>, Diff |-> <<>>]
      ELSE IF image1FileContents.nil
        THEN [err |-> FALSE, nil |-> FALSE,
              Description |-> EmptyFileDescription(src1, src2), Diff |-> <<>>]
      ELSE [err |-> FALSE, nil |-> FALSE, Description |-> <<>>,
            Diff |-> image1FileContents.val]

\* DiffFile: [err, nil, Description, Diff]; (nil, err) when a file cannot be
\* read
DiffFile(f1, f2, src1, src2) ==
  LET image1FileContents == GetFileContents(f1)
      image2FileContents == GetFileContents(f2)
  IN  IF image1FileContents.err \/ image2FileContents.err
        THEN [err |-> TRUE, nil |-> TRUE, Description |-> <<>>, Diff |-> <<>>]
      ELSE IF image1FileContents.nil /\ image2FileContents.nil
        THEN [err |-> FALSE, nil |-> FALSE,
              Description |-> <<"Both files are empty">>, Diff |-> <<>>]
      ELSE IF image1FileContents.nil
        THEN [err |-> FALSE, nil |-> FALSE,
              Description |-> EmptyFileDescription(src1, src2),
              Diff |-> image2FileContents.val]
      ELSE IF image2FileContents.nil
        THEN [err |-> FALSE, nil |-> FALSE,
              Description |-> EmptyFileDescription(src2, src1),
              Diff |-> image1FileContents.val]
      ELSE IF image1FileContents.val = image2FileContents.val
        THEN [err |-> FALSE, nil |-> FALSE,
              Description |-> <<"Both files are the same, the contents are:">>,
              Diff |-> image1FileContents.val]
      ELSE [err |-> FALSE, nil |-> FALSE, Description |-> <<>>,
            Diff |-> GetUnifiedDiffString(SplitLines(image1FileContents.val),
                                          SplitLines(image2FileContents.val),
                                          src1, src2)]

InitFile ==
  /\ file1 \in Files
  /\ file2 \in Files
  /\ source1 \in Sources
  /\ source2 \in Sources
  /\ fileRet = Unset
  /\ metaEntries = <<>> /\ strEntries = Unset
  /\ SeqIdle
  /\ DirIdle
  /\ LayerIdle

CallDiffFile ==
  /\ ~fileRet.set
  /\ fileRet' = Ret(DiffFile(file1, file2, source1, source2))
  /\ UNCHANGED <<file1, file2, source1, source2, strVars, seqVars, dirVars, layerVars>>

NextFile == CallDiffFile

SpecFile == InitFile /\ [][NextFile]_vars

(***************************************************************************)
(* SpecStr: stringifyMetaEntryDiffs on a list of MetaEntryDiff.  A         *)
(* formatted text is the sequence of its pieces, a number in octal the     *)
(* sequence of its digits.                                                 *)
(***************************************************************************)
MaxEntries == 2

\* the octal digits of n, most significant first
RECURSIVE OctalDigits(_)
OctalDigits(n) ==
  IF n < 8 THEN <<n>> ELSE Append(OctalDigits(n \div 8), n % 8)

\* the three octal digits of the permission bits
PermDigits(perm) == <<(perm \div 64) % 8, (perm \div 8) % 8, perm % 8>>

\* %#o of a fs.FileMode: a leading 0 and the octal digits of the mode's
\* number, in which ModeDir is bit 31, ModeSymlink bit 27 and the
\* permissions the low nine bits
FormatOctal(mode) ==
  IF HasBit(mode, ModeDir)
    THEN <<0, 2, 0, 0, 0, 0, 0, 0, 0>> \o PermDigits(mode.perm)
  ELSE IF HasBit(mode, ModeSymlink)
    THEN <<0, 1, 0, 0, 0, 0, 0, 0>> \o PermDigits(mode.perm)
  ELSE IF mode.perm = 0 THEN <<0>>
  ELSE <<0>> \o OctalDigits(mode.perm)

\* stringifyMeta: fmt.Sprintf("mode=%#o uid=%d gid=%d", mode, uid, gid)
stringifyMeta(mode, uid, gid) ==
  <<"mode=", FormatOctal(mode), " uid=", uid, " gid=", gid>>

\* stringifyMetaEntryDiffs: one StrMetaEntryDiff per entry, in order; both
\* Meta1 and Meta2 are built from Mode1, UID1 and GID1
stringifyMetaEntryDiffs(es) ==
  [k \in 1..Len(es) |->
     [Name  |-> es[k].Name,
      Meta1 |-> stringifyMeta(es[k].Mode1, es[k].UID1, es[k].GID1),
      Meta2 |-> stringifyMeta(es[k].Mode1, es[k].UID1, es[k].GID1)]]

\* the mode, uid and gid of one side of an entry
Modes == {[type |-> {}, perm |-> 420], [type |-> {}, perm |-> 493],
          [type |-> {ModeDir}, perm |-> 493], [type |-> {ModeSymlink}, perm |-> 511]}
Owners == {<<0, 0>>, <<MaxId, 0>>, <<0, MaxId>>}

\* the first side of an entry: a file, a directory, a symlink
FirstSides == {<<[type |-> {}, perm |-> 420], <<0, 0>>>>,
               <<[type |-> {ModeDir}, perm |-> 493], <<0, 0>>>>,
               <<[type |-> {ModeSymlink}, perm |-> 511], <<MaxId, 0>>>>}

\* every second side against each first side
MetaEntryDiffs ==
  {[Name |-> "/a", Mode1 |-> s1[1], UID1 |-> s1[2][1], GID1 |-> s1[2][2],
                   Mode2 |-> m2, UID2 |-> o2[1], GID2 |-> o2[2]] :
     s1 \in FirstSides, m2 \in Modes, o2 \in Owners}

InitStr ==
  /\ metaEntries \in SeqsUpTo(MetaEntryDiffs, MaxEntries)
  /\ strEntries = Unset
  /\ file1 = NoFile /\ file2 = NoFile /\ source1 = "" /\ source2 = ""
  /\ fileRet = Unset
  /\ SeqIdle
  /\ DirIdle
  /\ LayerIdle

CallStringifyMetaEntryDiffs ==
  /\ ~strEntries.set
  /\ strEntries' = Ret(stringifyMetaEntryDiffs(metaEntries))
  /\ UNCHANGED <<metaEntries, fileVars, seqVars, dirVars, layerVars>>

NextStr == CallStringifyMetaEntryDiffs

SpecStr == InitStr /\ [][NextStr]_vars

(***************************************************************************)
(* Properties                                                              *)
(***************************************************************************)

\* the spans of the opcodes whose tag is in tags, a-side and b-side
RECURSIVE SpansA(_, _, _)
SpansA(codes, a, tags) ==
  IF codes = <<>>
    THEN <<>>
    ELSE (IF Head(codes).Tag \in tags
            THEN Slice(a, Head(codes).I1, Head(codes).I2) ELSE <<>>)
         \o SpansA(Tail(codes), a, tags)

RECURSIVE SpansB(_, _, _)
SpansB(codes, b, tags) ==
  IF codes = <<>>
    THEN <<>>
    ELSE (IF Head(codes).Tag \in tags
            THEN Slice(b, Head(codes).J1, Head(codes).J2) ELSE <<>>)
         \o SpansB(Tail(codes), b, tags)

\* the opcodes tile [0, la) on the a side and [0, lb) on the b side: each
\* starts where the one before ended, so every position is in exactly one
Tiles(codes, la, lb) ==
  /\ \A k \in 1..Len(codes) :
        /\ codes[k].I1 <= codes[k].I2
        /\ codes[k].J1 <= codes[k].J2
        /\ codes[k].I1 = (IF k = 1 THEN 0 ELSE codes[k - 1].I2)
        /\ codes[k].J1 = (IF k = 1 THEN 0 ELSE codes[k - 1].J2)
        /\ codes[k].Tag \in {"e", "r", "d", "i"}
        /\ codes[k].Tag = "i" => codes[k].I1 = codes[k].I2
        /\ codes[k].Tag = "d" => codes[k].J1 = codes[k].J2
  /\ (IF codes = <<>> THEN 0 ELSE codes[Len(codes)].I2) = la
  /\ (IF codes = <<>> THEN 0 ELSE codes[Len(codes)].J2) = lb

\* C1: the opcodes of any two sequences a, b tile both of them; the equal
\* spans with the a-side delete/replace spans, in order, are a, and with the
\* b-side insert/replace spans are b; GetMatches returns exactly the equal
\* spans, GetDeletions the a-side delete/replace spans and GetAdditions the
\* b-side insert/replace spans, so every position of a is in exactly one of
\* GetMatches and GetDeletions and every position of b in exactly one of
\* GetMatches and GetAdditions.
C1_Reconstruction ==
  LET codes == GetOpCodes(seqA, seqB)
  IN  /\ Tiles(codes, Len(seqA), Len(seqB))
      /\ SpansA(codes, seqA, {"e", "d", "r"}) = seqA
      /\ SpansB(codes, seqB, {"e", "i", "r"}) = seqB
      /\ seqMatches.set =>
           /\ seqMatches.val = SpansA(codes, seqA, {"e"})
           /\ seqMatches.val = SpansB(codes, seqB, {"e"})
      /\ seqDels.set =>
           /\ seqDels.val = SpansA(codes, seqA, {"d", "r"})
           /\ seqMatches.set => Len(seqMatches.val) + Len(seqDels.val) = Len(seqA)
      /\ seqAdds.set =>
           /\ seqAdds.val = SpansB(codes, seqB, {"i", "r"})
           /\ seqMatches.set => Len(seqMatches.val) + Len(seqAdds.val) = Len(seqB)

\* C1 witness: all three functions have returned on a pair with a replaced
\* span, a match and repeated tokens
C1_Witness ==
  /\ seqAdds.set /\ seqDels.set /\ seqMatches.set
  /\ seqAdds.val # <<>> /\ seqDels.val # <<>> /\ seqMatches.val # <<>>
  /\ \E c \in {GetOpCodes(seqA, seqB)[k] : k \in 1..Len(GetOpCodes(seqA, seqB))} :
        c.Tag = "r"
  /\ \E i, j \in 1..Len(seqA) : i # j /\ seqA[i] = seqA[j]

(***************************************************************************)
(* Properties of the directory diffs.  They are stated on the trees        *)
(* themselves: which names each walk lists, and what the entries are.      *)
(***************************************************************************)
NameSet(entries) == {entries[k].Name : k \in 1..Len(entries)}

\* the names the snapshot of tree t lists
Listed(t) == {n \in Names : ~fs[t].rootErr /\ Walked(fs[t], n)}
Matched == Listed(1) \cap Listed(2)
AddedSet == Listed(2) \ Listed(1)
DeletedSet == Listed(1) \ Listed(2)

E1(f) == fs[1].ent[f]
E2(f) == fs[2].ent[f]
StatFails(t, f) == fs[t].ent[f].kind \in {"absent", "staterr"}
StatOk(f) == ~StatFails(1, f) /\ ~StatFails(2, f)
BothLinks(f) == E1(f).kind = "symlink" /\ E2(f).kind = "symlink"
Readable(e) == e.kind \in {"file", "symlink"} /\ ~e.ioerr

DirReturned == dirRet.set /\ ~dirRet.val.panic
DirRevReturned == dirRetRev.set /\ ~dirRetRev.val.panic
MetaReturned == metaRet.set /\ ~metaRet.val.err

\* C2: when DiffDirectory has returned for (T1, T2) and for (T2, T1), the
\* names of the Adds of one are the names of the Dels of the other, both
\* ways round.
C2_SwapAntisymmetry ==
  (DirReturned /\ DirRevReturned) =>
     /\ NameSet(dirRet.val.diff.Adds) = NameSet(dirRetRev.val.diff.Dels)
     /\ NameSet(dirRet.val.diff.Dels) = NameSet(dirRetRev.val.diff.Adds)

\* C2 witness: both calls returned, with an addition, a deletion and a match
C2_Witness ==
  /\ DirReturned /\ DirRevReturned
  /\ dirRet.val.diff.Adds # <<>>
  /\ dirRet.val.diff.Dels # <<>>
  /\ Matched # {}

\* C3: a tree compared against an identical copy of itself gives same = TRUE
\* and empty Adds, Dels and Mods, from DiffDirectory and from
\* DiffDirectoryMetadata (which returns no error); two empty trees included.
C3_Idempotence ==
  fs[1] = fs[2] =>
     /\ dirRet.set =>
          /\ ~dirRet.val.panic
          /\ dirRet.val.same
          /\ dirRet.val.diff = EmptyDiff
     /\ metaRet.set =>
          /\ ~metaRet.val.err
          /\ metaRet.val.same
          /\ metaRet.val.diff = EmptyDiff

\* C3 witness: both diffs returned on two equal trees of a symlink, a
\* directory and a file in it
C3_Witness ==
  /\ fs[1] = fs[2]
  /\ dirRet.set /\ metaRet.set
  /\ Listed(1) = Names
  /\ E1("/a").kind = "symlink"

\* C6 as claimed: for every return of either diff, same <=> Adds, Dels and
\* Mods are all empty.
C6_SameIffEmptyEveryReturn ==
  /\ DirReturned => (dirRet.val.same <=> dirRet.val.diff = EmptyDiff)
  /\ metaRet.set => (metaRet.val.same <=> metaRet.val.diff = EmptyDiff)

\* C6 amended: for every return of DiffDirectory and every return of
\* DiffDirectoryMetadata without an error, same <=> Adds, Dels and Mods are
\* all empty; the error return of DiffDirectoryMetadata is same = FALSE with
\* an empty MetaDirDiff.
C6_SameIffEmpty ==
  /\ DirReturned => (dirRet.val.same <=> dirRet.val.diff = EmptyDiff)
  /\ MetaReturned => (metaRet.val.same <=> metaRet.val.diff = EmptyDiff)
  /\ (metaRet.set /\ metaRet.val.err) =>
        (~metaRet.val.same /\ metaRet.val.diff = EmptyDiff)

\* C6 witness: both diffs returned and only Mods is not empty
C6_Witness ==
  /\ DirReturned /\ MetaReturned
  /\ dirRet.val.diff.Adds = <<>> /\ dirRet.val.diff.Dels = <<>>
  /\ dirRet.val.diff.Mods # <<>>
  /\ metaRet.val.diff.Adds = <<>> /\ metaRet.val.diff.Dels = <<>>
  /\ metaRet.val.diff.Mods # <<>>

\* what C7 says decides whether a matched entry is modified: the link
\* targets for two symlinks, else the sizes for a tar, else the sizes or the
\* bytes for anything but a directory, and never for a directory
ContentDiffers(f) ==
  IF BothLinks(f) THEN E1(f).target # E2(f).target
  ELSE IF E1(f).tar THEN E1(f).size # E2(f).size
  ELSE IF E1(f).kind # "dir" THEN E1(f).size # E2(f).size \/ E1(f).data # E2(f).data
  ELSE FALSE

\* the reads that decision needs succeed: both link targets, or, for two
\* entries of equal size, both contents
ReadsOk(f) ==
  IF BothLinks(f) THEN ~E1(f).ioerr /\ ~E2(f).ioerr
  ELSE IF E1(f).tar THEN TRUE
  ELSE IF E1(f).kind # "dir"
    THEN E1(f).size # E2(f).size \/ (Readable(E1(f)) /\ Readable(E2(f)))
  ELSE TRUE

MetaDiffers(f) ==
  \/ E1(f).kind # E2(f).kind
  \/ E1(f).perm # E2(f).perm
  \/ E1(f).uid # E2(f).uid
  \/ E1(f).gid # E2(f).gid

\* the metadata half of C8: a matched entry whose stat succeeds on both
\* sides is in Mods of DiffDirectoryMetadata exactly when its mode, uid or
\* gid differs, and no name is in Mods twice
MetaClassification ==
  MetaReturned =>
     /\ \A f \in Matched :
           StatOk(f) => (f \in NameSet(metaRet.val.diff.Mods) <=> MetaDiffers(f))
     /\ NameSet(metaRet.val.diff.Mods) \subseteq Matched
     /\ Cardinality(NameSet(metaRet.val.diff.Mods)) = Len(metaRet.val.diff.Mods)

\* C8 as claimed: MetaClassification, and a symlink with the same mode, uid
\* and gid on both sides but another target is in Mods of the content diff
\* and not in Mods of the metadata diff.
C8_MetaClassificationAnyLink ==
  /\ MetaClassification
  /\ \A f \in Matched :
        (BothLinks(f) /\ ~MetaDiffers(f) /\ E1(f).target # E2(f).target) =>
           /\ MetaReturned => f \notin NameSet(metaRet.val.diff.Mods)
           /\ DirReturned => f \in NameSet(dirRet.val.diff.Mods)

\* C8 amended: MetaClassification, and a symlink with the same mode, uid and
\* gid on both sides but another target, both targets readable, is in Mods of
\* the content diff and not in Mods of the metadata diff.
C8_MetaClassification ==
  /\ MetaClassification
  /\ \A f \in Matched :
        (BothLinks(f) /\ ~MetaDiffers(f) /\ E1(f).target # E2(f).target) =>
           /\ MetaReturned => f \notin NameSet(metaRet.val.diff.Mods)
           /\ (DirReturned /\ ~E1(f).ioerr /\ ~E2(f).ioerr) =>
                 f \in NameSet(dirRet.val.diff.Mods)

\* C8 witness: both diffs returned; "/a" is a symlink with two targets and
\* the same owner and mode, reported by the content diff alone
C8_Witness ==
  /\ DirReturned /\ MetaReturned
  /\ "/a" \in Matched /\ BothLinks("/a") /\ ~MetaDiffers("/a")
  /\ E1("/a").target # E2("/a").target
  /\ "/a" \in NameSet(dirRet.val.diff.Mods)
  /\ metaRet.val.diff.Mods = <<>>

\* a tree whose snapshot fails: the root cannot be walked, or the walk
\* reaches a directory it cannot read
UnreadableDir(t) ==
  \E n \in Names : Walked(fs[t], n) /\ fs[t].ent[n].kind = "dir" /\ fs[t].ent[n].ioerr
SnapshotFails(t) == fs[t].rootErr \/ UnreadableDir(t)

\* C5: when the walk of either tree fails (the root is missing, or a
\* directory below it cannot be read), diffImageFileMetadata returns an
\* error; no diff is returned from a partial or empty listing.
C5_HardFailOnSnapshot ==
  (imgRet.set /\ (SnapshotFails(1) \/ SnapshotFails(2))) => imgRet.val.err

\* a matched entry whose classification fails: its stat, or a read the
\* content decision needs
ContentFails(g) == ~StatOk(g) \/ ~ReadsOk(g)

\* what g is without its failure: the directory it is on one side, or else
\* a plain readable file, the same on both sides and so not modified
HealEntry(g) ==
  IF E1(g).kind = "dir" THEN E1(g)
  ELSE IF E2(g).kind = "dir" THEN E2(g)
  ELSE File("X", FALSE, FALSE, 420, 0, 0)

\* the two trees without the failure of g
Healed(g) == [t \in {1, 2} |-> [fs[t] EXCEPT !.ent[g] = HealEntry(g)]]

\* C9: a matched entry g whose stat or read fails is not in Mods, and the
\* comparison returns what it returns on the two trees without g's failure,
\* where g is not modified: the same Adds, Dels, Mods and same flag;
\* likewise for the metadata diff when g's stat fails.
C9_SoftFailure ==
  \A g \in Matched :
     LET h == Healed(g)
     IN  /\ (dirRet.set /\ ContentFails(g)) =>
              /\ dirRet.val = DiffDirectory(GetDirectory(h[1], TRUE).dir,
                                            GetDirectory(h[2], TRUE).dir)
              /\ g \notin NameSet(dirRet.val.diff.Mods)
         /\ (metaRet.set /\ ~StatOk(g)) =>
              /\ metaRet.val = DiffDirectoryMetadata(GetDirectory(h[1], TRUE).dir,
                                                     GetDirectory(h[2], TRUE).dir)
              /\ g \notin NameSet(metaRet.val.diff.Mods)

\* C9 witness: the stat of "/a" fails on one side, and both diffs returned
\* with "/b", and nothing else, modified
C9_Witness ==
  /\ DirReturned /\ MetaReturned
  /\ "/a" \in Matched /\ ~StatOk("/a")
  /\ NameSet(dirRet.val.diff.Mods) = {"/b"}
  /\ NameSet(metaRet.val.diff.Mods) = {"/b"}

\* an added or deleted entry whose stat fails
MaterializationFails ==
  \/ \E n \in AddedSet : StatFails(2, n)
  \/ \E n \in DeletedSet : StatFails(1, n)

\* C10: DiffDirectoryMetadata returns an error exactly when the stat of an
\* added or a deleted entry fails, and then the MetaDirDiff it returns is
\* empty and same is FALSE.
C10_MaterializationHardFailure ==
  metaRet.set =>
     /\ metaRet.val.err <=> MaterializationFails
     /\ metaRet.val.err => (metaRet.val.diff = EmptyDiff /\ ~metaRet.val.same)

\* C10 witness: the stat of an added entry fails and the diff is an error,
\* though a matched entry has another owner and one more entry was deleted
C10_Witness ==
  /\ metaRet.set /\ metaRet.val.err
  /\ \E n \in AddedSet : StatFails(2, n)
  /\ \E f \in Matched : StatOk(f) /\ MetaDiffers(f)
  /\ \E n \in DeletedSet : ~StatFails(1, n)

\* C4: when Diff returns without an error, DirDiffs has min(n1, n2) diffs,
\* the k-th is the diff of layer k of image1 against layer k of image2, and
\* no layer beyond the shorter image was diffed.
C4_LayerAlignment ==
  (pc = "done" /\ ~layerRet.val.err) =>
     LET n == Min(Len(image1), Len(image2))
     IN  /\ Len(layerRet.val.DirDiffs) = n
         /\ \A k \in 1..n :
               layerRet.val.DirDiffs[k] =
                  diffImageFileMetadata(image1[k], image2[k]).diff
         /\ diffed = [k \in 1..n |-> <<k - 1, k - 1>>]

\* C4 witness: image1 has three layers and image2 two, Diff returned two
\* diffs, and the two diffs are not the same
C4_Witness ==
  /\ pc = "done" /\ ~layerRet.val.err
  /\ Len(image1) = 3 /\ Len(image2) = 2
  /\ Len(layerRet.val.DirDiffs) = 2
  /\ layerRet.val.DirDiffs[1] # layerRet.val.DirDiffs[2]
  /\ image1[3] # EmptyTree

\* the aligned pairs, 1-based, and whether the diff of pair k fails
AlignedPairs == 1..Min(Len(image1), Len(image2))
PairFails(k) == diffImageFileMetadata(image1[k], image2[k]).err

\* C11: Diff returns an error exactly when an aligned pair fails; the pairs
\* diffed are then those up to the first failing one and none after it, and
\* the result returned with the error holds no diff, whatever was appended
\* for the pairs before it.
C11_AbortOnFirstFailure ==
  pc = "done" =>
     /\ layerRet.val.err <=> \E k \in AlignedPairs : PairFails(k)
     /\ layerRet.val.err =>
          LET k == Len(diffed)
          IN  /\ k \in AlignedPairs
              /\ PairFails(k)
              /\ \A i \in 1..(k - 1) : ~PairFails(i)
              /\ diffed = [i \in 1..k |-> <<i - 1, i - 1>>]
              /\ Len(dirDiffs) = k - 1
              /\ layerRet.val.DirDiffs = <<>>

\* C11 witness: the second of three aligned pairs failed; the diff of the
\* first had been appended, the third pair was never diffed
C11_Witness ==
  /\ pc = "done" /\ layerRet.val.err
  /\ Len(image1) = 3 /\ Len(image2) = 3
  /\ Len(diffed) = 2
  /\ Len(dirDiffs) = 1 /\ dirDiffs[1] # EmptyDiff
  /\ layerRet.val.DirDiffs = <<>>

\* the second pieces of the lines of a unified diff that start with prefix
LinesWith(d, prefix) ==
  LET sel == SelectSeq(d, LAMBDA l : l[1] = prefix)
  IN  [k \in 1..Len(sel) |-> sel[k][2]]

\* a unified diff of the line sequences a and b without context: the two
\* header lines when a name is given, no unchanged line, the lines of a that
\* are deleted after "-" and the lines of b that are added after "+"
UnifiedDiffOf(d, a, b, from, to) ==
  /\ (from # "" \/ to # "") =>
        /\ Len(d) > 2
        /\ d[1] = <<"--- ", from, "", NL>>
        /\ d[2] = <<"+++ ", to, "", NL>>
  /\ LinesWith(d, " ") = <<>>
  /\ LinesWith(d, "-") = GetDeletions(a, b)
  /\ LinesWith(d, "+") = GetAdditions(a, b)
  /\ SelectSeq(d, LAMBDA l : l[1] = "@@ -") # <<>>

\* C12: DiffFile on two files that can be read returns no error and, by
\* case: both bodies empty, the description "Both files are empty" and an
\* empty diff body; one body empty, the other body as the diff body and a
\* description that starts with the image of the empty file; both equal and
\* not empty, that body as the diff body; both not empty and different, and
\* only then, a unified diff of the two line sequences.
C12_DiffFileCases ==
  (fileRet.set /\ file1.kind = "file" /\ file2.kind = "file") =>
     LET r == fileRet.val
     IN  /\ ~r.err /\ ~r.nil
         /\ IF file1.body = <<>> /\ file2.body = <<>>
              THEN r.Description = <<"Both files are empty">> /\ r.Diff = <<>>
            ELSE IF file1.body = <<>>
              THEN /\ r.Diff = file2.body
                   /\ r.Description =
                        <<source1, " contains an empty file, the contents of ",
                          source2, " are:">>
            ELSE IF file2.body = <<>>
              THEN /\ r.Diff = file1.body
                   /\ r.Description =
                        <<source2, " contains an empty file, the contents of ",
                          source1, " are:">>
            ELSE IF file1.body = file2.body
              THEN /\ r.Diff = file1.body
                   /\ r.Description =
                        <<"Both files are the same, the contents are:">>
            ELSE /\ r.Description = <<>>
                 /\ UnifiedDiffOf(r.Diff, SplitLines(file1.body),
                                  SplitLines(file2.body), source1, source2)

\* C12 witness: DiffFile returned for two bodies of two lines each that
\* share one line, with two image names
C12_Witness ==
  /\ fileRet.set /\ ~fileRet.val.err
  /\ file1.body = <<"a", NL, "b">> /\ file2.body = <<"a", NL, "a">>
  /\ source1 = "one" /\ source2 = "two"
  /\ Len(fileRet.val.Diff) = 5

\* strictly ascending by name: sorted, and no name twice
Ascending(es) ==
  \A i, j \in 1..Len(es) : i < j => Rank(es[i].Name) < Rank(es[j].Name)

\* the size of path n in tree t: -1 when its stat fails, the sizes of the
\* files below it for a directory, its own size otherwise
RECURSIVE SizeOf(_, _)
SizeOf(t, n) ==
  LET e == fs[t].ent[n]
      RECURSIVE Sum(_)
      Sum(S) == IF S = {} THEN 0
                ELSE LET c == CHOOSE c \in S : TRUE
                     IN  (IF StatFails(t, c) THEN 0 ELSE SizeOf(t, c)) + Sum(S \ {c})
  IN  IF StatFails(t, n) THEN -1
      ELSE IF e.kind # "dir" THEN e.size
      ELSE IF e.ioerr THEN 0
      ELSE Sum(Children(n))

\* the three lists are in ascending order of name, one entry per added,
\* per deleted and per modified name, each with the sizes of its path
OrderAndSizes ==
  LET d == dirRet.val.diff
  IN  /\ Ascending(d.Adds) /\ Ascending(d.Dels) /\ Ascending(d.Mods)
      /\ NameSet(d.Adds) = AddedSet
      /\ NameSet(d.Dels) = DeletedSet
      /\ NameSet(d.Mods) \subseteq Matched
      /\ \A k \in 1..Len(d.Adds) : d.Adds[k].Size = SizeOf(2, d.Adds[k].Name)
      /\ \A k \in 1..Len(d.Dels) : d.Dels[k].Size = SizeOf(1, d.Dels[k].Name)
      /\ \A k \in 1..Len(d.Mods) :
            /\ d.Mods[k].Size1 = SizeOf(1, d.Mods[k].Name)
            /\ d.Mods[k].Size2 = SizeOf(2, d.Mods[k].Name)

\* C13: DiffDirectory returns Adds, Dels and Mods in ascending order of
\* name, one entry per reported name; an Adds entry has the size of its path
\* in the second tree, a Dels entry the size in the first, a Mods entry
\* both, and the size is -1 for a path whose stat fails.
C13_OrderAndSizes ==
  dirRet.set => (~dirRet.val.panic /\ OrderAndSizes)

SidesDiffer(e) ==
  e.Mode1 # e.Mode2 \/ e.UID1 # e.UID2 \/ e.GID1 # e.GID2

\* C14: stringifyMetaEntryDiffs returns one entry per MetaEntryDiff, in
\* order, with Meta1 the rendering of (Mode1, UID1, GID1) and Meta2 the
\* rendering of (Mode2, UID2, GID2); an entry whose sides differ in mode, uid
\* or gid has Meta1 # Meta2.
C14_SideBySide ==
  strEntries.set =>
     /\ Len(strEntries.val) = Len(metaEntries)
     /\ \A k \in 1..Len(metaEntries) :
           LET e == metaEntries[k]
               r == strEntries.val[k]
           IN  /\ r.Name = e.Name
               /\ r.Meta1 = stringifyMeta(e.Mode1, e.UID1, e.GID1)
               /\ r.Meta2 = stringifyMeta(e.Mode2, e.UID2, e.GID2)
               /\ SidesDiffer(e) => r.Meta1 # r.Meta2

====
